---- MODULE Spec2Model ----
(***************************************************************************)
(* Model of src/Jordan/jordan.py: Jordan canonical form by the Weyr        *)
(* characteristic.  Matrices are concrete values with integer entries;     *)
(* the sympy primitives the program uses (eye, zeros, row_join, col_join,  *)
(* +, -, scalar *, **, rank, eigenvals) are modelled by what they compute. *)
(* A run is one call of one function of the module: Init chooses the       *)
(* function and its arguments, the actions execute it.                     *)
(***************************************************************************)
EXTENDS Integers, Sequences, FiniteSets, TLC

VARIABLES fn, pc, A, B, eigenval, n, r, p, w, ml, vals, blocks, result

vars == <<fn, pc, A, B, eigenval, n, r, p, w, ml, vals, blocks, result>>

(* ------------------------------ bounds --------------------------------- *)
\* largest dimension of the matrices given to jordan_form / stabilize_ranks
MaxN == 3
\* diagonal entries (eigenvalues) of the input matrices range over 0..MaxEig
MaxEig == 1
\* largest row / column count of the operands of direct_summand, many_summand
MaxDim == 2
\* longest list given to many_summand
MaxList == 3
\* longest list given to weyr and create_blocks
MaxLen == 3
\* entries of the lists given to weyr and create_blocks range over 0..MaxVal
MaxVal == 2

(* ------------------------- values and sympy ---------------------------- *)
\* a sympy Matrix: shape and entries, row by row
Mk(rows, cols, F(_, _)) ==
  [kind |-> "Matrix", rows |-> rows, cols |-> cols,
   ent |-> SubSeq([i \in 1..rows |->
                     SubSeq([j \in 1..cols |-> F(i, j)], 1, cols)], 1, rows)]

\* Python's None (the value of a bare "return")
NoneVal == [kind |-> "None", rows |-> 0, cols |-> 0, ent |-> <<>>]

\* a raised exception, propagated to the caller
Raise(name) == [kind |-> name, rows |-> 0, cols |-> 0, ent |-> <<>>]

IsMatrix(X) == X.kind = "Matrix"

\* what an operation on X raises when X is not a matrix: an attribute
\* access on None raises AttributeError, an exception already raised
\* propagates
NotMatrix(X) == IF X.kind = "None" THEN Raise("AttributeError") ELSE X

eye(k) == Mk(k, k, LAMBDA i, j : IF i = j THEN 1 ELSE 0)

zeros(rows, cols) == Mk(rows, cols, LAMBDA i, j : 0)

\* Matrix(v_i) for a flat list v_i: a column vector
ColVec(v) == Mk(Len(v), 1, LAMBDA i, j : v[i])

\* (in the matrix operations below a bound variable of a singleton set,
\* such as x in {X}, takes the operand's value, so that the operand is
\* evaluated once and not once for every use)
MAdd(X, Y) ==
  CHOOSE M \in {IF x.rows # y.rows \/ x.cols # y.cols THEN Raise("ShapeError")
                ELSE Mk(x.rows, x.cols, LAMBDA i, j : x.ent[i][j] + y.ent[i][j]) :
                  x \in {X}, y \in {Y}} : TRUE

MScale(c, X) ==
  CHOOSE M \in {Mk(x.rows, x.cols, LAMBDA i, j : c * x.ent[i][j]) :
                  x \in {X}} : TRUE

MSub(X, Y) == MAdd(X, MScale(-1, Y))

\* sum over k2 = 1..k of X[i][k2] * Y[k2][j]
RECURSIVE Dot(_, _, _, _, _)
Dot(X, Y, i, j, k) ==
  IF k = 0 THEN 0 ELSE Dot(X, Y, i, j, k - 1) + X.ent[i][k] * Y.ent[k][j]

MMul(X, Y) ==
  CHOOSE M \in {Mk(x.rows, y.cols, LAMBDA i, j : Dot(x, y, i, j, x.cols)) :
                  x \in {X}, y \in {Y}} : TRUE

RECURSIVE MPow(_, _)
MPow(X, q) == IF q = 0 THEN eye(X.rows) ELSE MMul(MPow(X, q - 1), X)

\* X.row_join(Y): Y's columns to the right of X's; the row counts must agree
row_join(X, Y) ==
  IF ~IsMatrix(X) THEN NotMatrix(X)
  ELSE IF ~IsMatrix(Y) THEN NotMatrix(Y)
  ELSE IF X.rows # Y.rows THEN Raise("ShapeError")
  ELSE Mk(X.rows, X.cols + Y.cols,
          LAMBDA i, j : IF j <= X.cols THEN X.ent[i][j]
                        ELSE Y.ent[i][j - X.cols])

\* X.col_join(Y): Y's rows below X's; the column counts must agree
col_join(X, Y) ==
  IF ~IsMatrix(X) THEN NotMatrix(X)
  ELSE IF ~IsMatrix(Y) THEN NotMatrix(Y)
  ELSE IF X.cols # Y.cols THEN Raise("ShapeError")
  ELSE Mk(X.rows + Y.rows, X.cols,
          LAMBDA i, j : IF i <= X.rows THEN X.ent[i][j]
                        ELSE Y.ent[i - X.rows][j])

\* rank by fraction-free Gaussian elimination on the list of rows
Abs(x) == IF x < 0 THEN -x ELSE x

RECURSIVE Gcd(_, _)
Gcd(a, b) ==
  IF b = 0 THEN a ELSE CHOOSE g \in {Gcd(y, x % y) : x \in {a}, y \in {b}} : TRUE

RECURSIVE RowGcd(_, _)
RowGcd(row, k) == IF k = 0 THEN 0 ELSE Gcd(RowGcd(row, k - 1), Abs(row[k]))

\* row divided by the gcd g of its entries
Divide(row, g) ==
  IF g <= 1 THEN row
  ELSE SubSeq([j \in 1..Len(row) |-> row[j] \div g], 1, Len(row))

Reduce(row) ==
  CHOOSE red \in {Divide(rw, g) : rw \in {row}, g \in {RowGcd(row, Len(row))}} : TRUE

\* row with the entry of column col eliminated by the pivot row pr
Elim(row, pr, col) ==
  IF row[col] = 0 THEN row
  ELSE Reduce(SubSeq([j \in 1..Len(row) |->
                        row[j] * pr[col] - pr[j] * row[col]], 1, Len(row)))

\* the rows other than the pivot row k, each with column col eliminated
Eliminate(rows, col, k) ==
  SubSeq([i \in 1..(Len(rows) - 1) |->
            Elim(rows[IF i < k THEN i ELSE i + 1], rows[k], col)],
         1, Len(rows) - 1)

RECURSIVE RankRows(_, _, _)
RankRows(rows, col, ncols) ==
  IF Len(rows) = 0 \/ col > ncols THEN 0
  ELSE LET piv == {i \in 1..Len(rows) : rows[i][col] # 0}
       IN  IF piv = {} THEN RankRows(rows, col + 1, ncols)
           ELSE 1 + CHOOSE rk \in
                      {RankRows(rest, col + 1, ncols) :
                         rest \in {Eliminate(rs, col, k) :
                                     rs \in {rows},
                                     k \in {CHOOSE i \in piv :
                                              \A i2 \in piv : i <= i2}}} : TRUE

Rank(X) ==
  CHOOSE rk \in {RankRows(rows, 1, Len(rows[1])) : rows \in {X.ent}} : TRUE

\* the keys of A.eigenvals(): the values e with A - e*I singular.  Every
\* eigenvalue of the matrices in JFInputs lies in 0..MaxEig.
eigenvals(X) ==
  {e \in 0..MaxEig : Rank(MSub(X, MScale(e, eye(X.rows)))) < X.rows}

(* --------------------------- jordan.py --------------------------------- *)
\* Python list indexing l[i] (0-based, a negative index counts from the end)
PyIndex(l, i) == IF i < 0 THEN l[Len(l) + i + 1] ELSE l[i + 1]

\* faulty variant: the test "p != 0" is missing
StabilizeBody_nop0(X, e, rr, pp) ==
  CHOOSE s \in
    {LET r2 == Append(rr, rank)
     IN  [r |-> r2,
          ret |-> (rank = PyIndex(r2, pp - 1)),
          p |-> IF rank = PyIndex(r2, pp - 1) THEN pp ELSE pp + 1] :
       rank \in {Rank(MPow(MSub(X, MScale(e, eye(X.rows))), pp))}} : TRUE

\* one iteration of the "while True" loop of stabilize_ranks
StabilizeBody(X, e, rr, pp) ==
  CHOOSE s \in
    {LET r2 == Append(rr, rank)
     IN  [r |-> r2,
          ret |-> (rank = PyIndex(r2, pp - 1) /\ pp # 0),
          p |-> IF rank = PyIndex(r2, pp - 1) /\ pp # 0 THEN pp ELSE pp + 1] :
       rank \in {Rank(MPow(MSub(X, MScale(e, eye(X.rows))), pp))}} : TRUE

RECURSIVE StabilizeLoop(_, _, _, _)
StabilizeLoop(X, e, rr, pp) ==
  CHOOSE res \in {IF s.ret THEN s.r ELSE StabilizeLoop(X, e, s.r, s.p) :
                    s \in {StabilizeBody(X, e, rr, pp)}} : TRUE

stabilize_ranks(X, e) == StabilizeLoop(X, e, <<>>, 0)

\* faulty variant: the sentinel is not appended
weyr_nosentinel(rr) == [q \in 1..(Len(rr) - 1) |-> rr[q] - rr[q + 1]]

weyr(rr) ==
  LET wp == [q \in 1..(Len(rr) - 1) |-> rr[q] - rr[q + 1]]
  IN  Append(wp, 0)

RECURSIVE ConcatLoop(_, _, _)
ConcatLoop(M, v, i) ==
  IF i > Len(v) THEN M ELSE ConcatLoop(row_join(M, v[i]), v, i + 1)

concat_vec(v) == ConcatLoop(v[1], v, 2)

\* faulty variant: the 1 of column i is at position i, below the diagonal
get_super_sub(k) ==
  LET v == [c \in 1..k |->
              ColVec([i \in 1..k |-> IF c >= 1 /\ i = c + 1 THEN 1 ELSE 0])]
  IN  concat_vec(v)

\* v[1] is the zero column; v[i + 2] has its 1 at (0-based) position i
get_super(k) ==
  LET v == [c \in 1..k |->
              ColVec([i \in 1..k |-> IF c >= 2 /\ i = c - 1 THEN 1 ELSE 0])]
  IN  concat_vec(v)

direct_summand(X, Y) ==
  IF ~IsMatrix(X) THEN NotMatrix(X)
  ELSE IF ~IsMatrix(Y) THEN NotMatrix(Y)
  ELSE LET lower_zero == zeros(Y.rows, X.cols)
           upper_zero == zeros(X.cols, Y.rows)
           upper == row_join(X, upper_zero)
           lower == row_join(lower_zero, Y)
       IN  col_join(upper, lower)

RECURSIVE SummandLoop(_, _, _)
SummandLoop(M, l, i) ==
  IF i > Len(l) THEN M ELSE SummandLoop(direct_summand(M, l[i]), l, i + 1)

\* faulty variant: the loop starts one index late and skips ml[2]
many_summand_skip(l) ==
  IF Len(l) = 1 THEN l[1]
  ELSE IF Len(l) > 1 THEN SummandLoop(direct_summand(l[1], l[2]), l, 4)
  ELSE NoneVal

many_summand(l) ==
  IF Len(l) = 1 THEN l[1]
  ELSE IF Len(l) > 1 THEN SummandLoop(direct_summand(l[1], l[2]), l, 3)
  ELSE NoneVal

jordan_block(e, k) == MAdd(MScale(e, eye(k)), get_super(k))

\* faulty variant: the difference is taken the other way round
block_info_neg(ww) == [i \in 1..(Len(ww) - 1) |-> ww[i + 1] - ww[i]]

\* block_info[i] = weyr[i-1] - weyr[i] for i in range(1, len(weyr))
block_info(ww) == [i \in 1..(Len(ww) - 1) |-> ww[i] - ww[i + 1]]

\* the list "blocks" of create_blocks: index i of block_info (1-based
\* here, so the block size i+1 of the source is i), from the last index
\* down to the first
RECURSIVE BlocksLoop(_, _, _, _)
\* faulty variant: one block per positive entry, whatever the count
BlocksLoop_once(bi, i, e, bl) ==
  IF i = 0 THEN bl
  ELSE BlocksLoop(bi, i - 1, e,
         IF bi[i] > 0 THEN Append(bl, jordan_block(e, i)) ELSE bl)

\* faulty variant: the block size is one too large
BlocksLoop_size(bi, i, e, bl) ==
  IF i = 0 THEN bl
  ELSE BlocksLoop(bi, i - 1, e,
         IF bi[i] > 0
         THEN bl \o [c \in 1..bi[i] |-> jordan_block(e, i + 1)]
         ELSE bl)

\* faulty variant: the indices are visited in increasing order, the larger blocks
\* come first in the list no more
BlocksLoop_fwd(bi, i, e, bl) ==
  IF i = 0 THEN bl
  ELSE BlocksLoop(bi, i - 1, e,
         IF bi[i] > 0
         THEN [c \in 1..bi[i] |-> jordan_block(e, i)] \o bl
         ELSE bl)

BlocksLoop(bi, i, e, bl) ==
  IF i = 0 THEN bl
  ELSE BlocksLoop(bi, i - 1, e,
         IF bi[i] > 0
         THEN bl \o [c \in 1..bi[i] |-> jordan_block(e, i)]
         ELSE bl)

\* faulty variant: the last index of block_info is not visited
block_list_skiplast(ww, e) ==
  IF Len(ww) <= 1 THEN <<>>
  ELSE BlocksLoop(block_info(ww), Len(block_info(ww)) - 1, e, <<>>)

block_list(ww, e) == BlocksLoop(block_info(ww), Len(block_info(ww)), e, <<>>)

create_blocks(ww, e) == many_summand(block_list(ww, e))

(* ----------------------------- inputs ---------------------------------- *)
\* the square matrices given to jordan_form and stabilize_ranks: upper
\* triangular, diagonal entries d in 0..MaxEig, superdiagonal entries u in
\* 0..1, and one value c in 0..1 for every entry above the superdiagonal
UpperTri(k) ==
  {Mk(k, k, LAMBDA i, j : IF i = j THEN d[i]
                          ELSE IF j = i + 1 THEN u[i]
                          ELSE IF j > i + 1 THEN c ELSE 0) :
     d \in [1..k -> 0..MaxEig], u \in [1..(k - 1) -> 0..1], c \in 0..1}

JFInputs == UNION {UpperTri(k) : k \in 1..MaxN}

\* the matrices given to direct_summand and many_summand: every shape up to
\* MaxDim x MaxDim, all entries non-zero, distinct within a matrix and, by
\* the tag t, between the matrices of one call
Operand(rows, cols, t) == Mk(rows, cols, LAMBDA i, j : 100 * t + 10 * i + j)

Shapes == (1..MaxDim) \X (1..MaxDim)

\* the lists of 0..MaxList operands; the k-th has tag k
OperandLists ==
  {[k \in 1..len |-> Operand(sh[k][1], sh[k][2], k)] :
     len \in 0..MaxList, sh \in [1..MaxList -> Shapes]}

SeqsUpTo(S, lo, hi) == UNION {[1..k -> S] : k \in lo..hi}

\* the orders in which a dict with key set S can be iterated
Orders(S) ==
  {s \in [1..Cardinality(S) -> S] : \A i, j \in DOMAIN s : i # j => s[i] # s[j]}

\* bound of the model on the loop counter of stabilize_ranks
PCap == MaxN + 2

(* --------------------------- state machine ----------------------------- *)
Init ==
  /\ pc = "start"
  /\ \/ /\ fn = "jordan_form"
        /\ A \in JFInputs
        /\ B = NoneVal /\ eigenval = 0 /\ n = 0 /\ r = <<>> /\ p = 0
        /\ w = <<>> /\ ml = <<>> /\ vals = <<>> /\ blocks = <<>>
        /\ result = NoneVal
     \/ /\ fn = "stabilize_ranks"
        /\ A \in JFInputs
        /\ eigenval \in 0..MaxEig
        /\ B = NoneVal /\ n = 0 /\ r = <<>> /\ p = 0
        /\ w = <<>> /\ ml = <<>> /\ vals = <<>> /\ blocks = <<>>
        /\ result = NoneVal
     \/ /\ fn = "weyr"
        /\ r \in SeqsUpTo(0..MaxVal, 1, MaxLen)
        /\ A = NoneVal /\ B = NoneVal /\ eigenval = 0 /\ n = 0 /\ p = 0
        /\ w = <<>> /\ ml = <<>> /\ vals = <<>> /\ blocks = <<>>
        /\ result = NoneVal
     \/ /\ fn = "create_blocks"
        /\ w \in SeqsUpTo(0..MaxVal, 1, MaxLen)
        /\ eigenval \in 0..(MaxEig + 1)
        /\ A = NoneVal /\ B = NoneVal /\ n = 0 /\ r = <<>> /\ p = 0
        /\ ml = <<>> /\ vals = <<>> /\ blocks = <<>>
        /\ result = NoneVal
     \/ /\ fn = "direct_summand"
        /\ A \in {Operand(sh[1], sh[2], 1) : sh \in Shapes}
        /\ B \in {Operand(sh[1], sh[2], 2) : sh \in Shapes}
        /\ eigenval = 0 /\ n = 0 /\ r = <<>> /\ p = 0
        /\ w = <<>> /\ ml = <<>> /\ vals = <<>> /\ blocks = <<>>
        /\ result = NoneVal
     \/ /\ fn = "many_summand"
        /\ ml \in OperandLists
        /\ A = NoneVal /\ B = NoneVal /\ eigenval = 0 /\ n = 0 /\ r = <<>>
        /\ p = 0 /\ w = <<>> /\ vals = <<>> /\ blocks = <<>>
        /\ result = NoneVal
     \/ /\ fn = "jordan_block"
        /\ eigenval \in 0..(MaxEig + 1)
        /\ n \in 1..MaxN
        /\ A = NoneVal /\ B = NoneVal /\ r = <<>> /\ p = 0
        /\ w = <<>> /\ ml = <<>> /\ vals = <<>> /\ blocks = <<>>
        /\ result = NoneVal

\* jordan_form, lines 185-190: the eigenvalues in the order the dict yields
JFEigen ==
  /\ fn = "jordan_form" /\ pc = "start"
  /\ vals' \in Orders(eigenvals(A))
  /\ blocks' = <<>>
  /\ pc' = "loop"
  /\ UNCHANGED <<fn, A, B, eigenval, n, r, p, w, ml, result>>

\* jordan_form, lines 191-197: one iteration of "for e in vals"
JFIter ==
  /\ fn = "jordan_form" /\ pc = "loop"
  /\ Len(blocks) < Len(vals)
  /\ LET e   == vals[Len(blocks) + 1]
         rr  == stabilize_ranks(A, e)
         ww  == weyr(rr)
         e_m == create_blocks(ww, e)
     IN  /\ eigenval' = e
         /\ r' = rr
         /\ w' = ww
         /\ blocks' = Append(blocks, e_m)
  /\ UNCHANGED <<fn, pc, A, B, n, p, ml, vals, result>>

\* jordan_form, lines 199-203
JFReturn ==
  /\ fn = "jordan_form" /\ pc = "loop"
  /\ Len(blocks) = Len(vals)
  /\ result' = IF Len(blocks) > 1 THEN many_summand(blocks)
               ELSE IF Len(blocks) = 0 THEN Raise("IndexError")
               ELSE blocks[1]
  /\ pc' = "done"
  /\ UNCHANGED <<fn, A, B, eigenval, n, r, p, w, ml, vals, blocks>>

\* stabilize_ranks, lines 18-19
SRStart ==
  /\ fn = "stabilize_ranks" /\ pc = "start"
  /\ r' = <<>>
  /\ p' = 0
  /\ pc' = "loop"
  /\ UNCHANGED <<fn, A, B, eigenval, n, w, ml, vals, blocks, result>>

\* stabilize_ranks, lines 21-27: one iteration of "while True"
SRIter ==
  /\ fn = "stabilize_ranks" /\ pc = "loop"
  /\ p < PCap
  /\ \E s \in {StabilizeBody(A, eigenval, r, p)} :
       /\ r' = s.r
       /\ p' = s.p
       /\ pc' = IF s.ret THEN "done" ELSE "loop"
  /\ UNCHANGED <<fn, A, B, eigenval, n, w, ml, vals, blocks, result>>

CallWeyr ==
  /\ fn = "weyr" /\ pc = "start"
  /\ w' = weyr(r)
  /\ pc' = "done"
  /\ UNCHANGED <<fn, A, B, eigenval, n, r, p, ml, vals, blocks, result>>

CallCreateBlocks ==
  /\ fn = "create_blocks" /\ pc = "start"
  /\ blocks' = block_list(w, eigenval)
  /\ result' = create_blocks(w, eigenval)
  /\ pc' = "done"
  /\ UNCHANGED <<fn, A, B, eigenval, n, r, p, w, ml, vals>>

CallDirectSummand ==
  /\ fn = "direct_summand" /\ pc = "start"
  /\ result' = direct_summand(A, B)
  /\ pc' = "done"
  /\ UNCHANGED <<fn, A, B, eigenval, n, r, p, w, ml, vals, blocks>>

CallManySummand ==
  /\ fn = "many_summand" /\ pc = "start"
  /\ result' = many_summand(ml)
  /\ pc' = "done"
  /\ UNCHANGED <<fn, A, B, eigenval, n, r, p, w, ml, vals, blocks>>

CallJordanBlock ==
  /\ fn = "jordan_block" /\ pc = "start"
  /\ result' = jordan_block(eigenval, n)
  /\ pc' = "done"
  /\ UNCHANGED <<fn, A, B, eigenval, n, r, p, w, ml, vals, blocks>>

Next ==
  \/ JFEigen
  \/ JFIter
  \/ JFReturn
  \/ SRStart
  \/ SRIter
  \/ CallWeyr
  \/ CallCreateBlocks
  \/ CallDirectSummand
  \/ CallManySummand
  \/ CallJordanBlock

Spec == Init /\ [][Next]_vars

\* the interpreter runs a started call of stabilize_ranks on: the loop is
\* not suspended forever
FairSpec == Spec /\ WF_vars(SRStart) /\ WF_vars(SRIter)

(* ------------------- vocabulary of the properties ---------------------- *)
\* the Jordan block of the definition: e on the diagonal, 1 on the
\* superdiagonal, 0 elsewhere
JBlock(e, k) ==
  Mk(k, k, LAMBDA i, j : IF i = j THEN e ELSE IF j = i + 1 THEN 1 ELSE 0)

\* the block matrix [[X, 0], [0, Y]]
DirectSum(X, Y) ==
  Mk(X.rows + Y.rows, X.cols + Y.cols,
     LAMBDA i, j : IF i <= X.rows /\ j <= X.cols THEN X.ent[i][j]
                   ELSE IF i > X.rows /\ j > X.cols
                        THEN Y.ent[i - X.rows][j - X.cols]
                   ELSE 0)

\* number of rows of the first k matrices of the list l
RECURSIVE RowsBefore(_, _)
RowsBefore(l, k) == IF k = 0 THEN 0 ELSE RowsBefore(l, k - 1) + l[k].rows

\* the member of l that covers diagonal position i of the block-diagonal
\* matrix of l
Owner(l, i) ==
  CHOOSE k \in 1..Len(l) : RowsBefore(l, k - 1) < i /\ i <= RowsBefore(l, k)

\* the square matrices of l along the diagonal, in list order, 0 elsewhere
DiagOf(l) ==
  Mk(RowsBefore(l, Len(l)), RowsBefore(l, Len(l)),
     LAMBDA i, j : IF Owner(l, i) = Owner(l, j)
                   THEN l[Owner(l, i)].ent[i - RowsBefore(l, Owner(l, i) - 1)]
                                          [j - RowsBefore(l, Owner(l, i) - 1)]
                   ELSE 0)

\* M is a direct sum of Jordan blocks
IsJordanShape(M) ==
  /\ IsMatrix(M)
  /\ M.rows = M.cols
  /\ \A i, j \in 1..M.rows :
       /\ (j # i /\ j # i + 1) => M.ent[i][j] = 0
       /\ (j = i + 1) => /\ M.ent[i][j] \in {0, 1}
                         /\ M.ent[i][j] = 1 => M.ent[i][i] = M.ent[j][j]

\* the last diagonal position of each Jordan block of M
BlockEnds(M) == {t \in 1..M.rows : t = M.rows \/ M.ent[t][t + 1] = 0}

\* the Jordan block of M that ends at diagonal position t: <<eigenvalue, size>>
BlockAt(M, t) ==
  LET s == CHOOSE s \in 1..t :
             /\ s = 1 \/ M.ent[s - 1][s] = 0
             /\ \A q \in s..(t - 1) : M.ent[q][q + 1] = 1
  IN  <<M.ent[t][t], t - s + 1>>

\* how many Jordan blocks of M have eigenvalue e and size k
BlockCount(M, e, k) == Cardinality({t \in BlockEnds(M) : BlockAt(M, t) = <<e, k>>})

\* rank((X - e*I)^q)
RankAt(X, e, q) == Rank(MPow(MSub(X, MScale(e, eye(X.rows))), q))

Max0(x) == IF x > 0 THEN x ELSE 0

RECURSIVE FoldLeft(_, _)
FoldLeft(l, k) ==
  IF k = 1 THEN l[1] ELSE direct_summand(FoldLeft(l, k - 1), l[k])

JFDone == fn = "jordan_form" /\ pc = "done"

(* ----------------------------- properties ------------------------------ *)
\* C1: jordan_form(A) returns an n x n matrix for an n x n matrix A: the
\* block sizes of each eigenvalue sum to r[0] - r[last] of its rank
\* sequence, and over all eigenvalues they sum to n.
C1_JordanFormSquare ==
  fn = "jordan_form" =>
    /\ Len(blocks) >= 1 =>
         /\ IsMatrix(blocks[Len(blocks)])
         /\ blocks[Len(blocks)].rows = r[1] - r[Len(r)]
         /\ blocks[Len(blocks)].cols = r[1] - r[Len(r)]
    /\ pc = "done" =>
         /\ IsMatrix(result)
         /\ result.rows = A.rows
         /\ result.cols = A.cols
         /\ RowsBefore(blocks, Len(blocks)) = A.rows

C1_Witness ==
  /\ JFDone
  /\ A.rows = 3
  /\ Len(vals) = 2
  /\ IsMatrix(result)
  /\ result.rows = 3

\* C2: for a matrix J that is a direct sum of Jordan blocks, jordan_form(J)
\* is a direct sum of exactly the same multiset of (eigenvalue, size) blocks.
C2_RoundTrip ==
  (JFDone /\ IsJordanShape(A)) =>
    /\ IsJordanShape(result)
    /\ \A e \in 0..MaxEig, k \in 1..A.rows :
         BlockCount(result, e, k) = BlockCount(A, e, k)

C2_Witness ==
  /\ JFDone
  /\ IsJordanShape(A)
  /\ A.rows = 3
  /\ BlockCount(A, 1, 2) = 1
  /\ BlockCount(A, 0, 1) = 1
  /\ BlockCount(result, 1, 2) = 1
  /\ BlockCount(result, 0, 1) = 1

\* C3: direct_summand(A, B) is the block matrix [[A, 0], [0, B]] for
\* matrices A, B of any shapes.
C3_DirectSummandAnyShape ==
  (fn = "direct_summand" /\ pc = "done") => result = DirectSum(A, B)

\* C4: jordan_block(lambda, n) has lambda on the diagonal, 1 on the
\* superdiagonal and 0 elsewhere; for n = 1 it is [lambda].
C4_JordanBlock ==
  (fn = "jordan_block" /\ pc = "done") =>
    /\ result = JBlock(eigenval, n)
    /\ n = 1 => result.ent = <<<<eigenval>>>>

C4_Witness ==
  /\ fn = "jordan_block" /\ pc = "done"
  /\ n = 3
  /\ eigenval = 2
  /\ result.ent = <<<<2, 1, 0>>, <<0, 2, 1>>, <<0, 0, 2>>>>

\* C5: many_summand of a non-empty list is the left fold of direct_summand
\* over the list in order; a single-element list gives its element.
C5_ManySummandFold ==
  (fn = "many_summand" /\ pc = "done" /\ Len(ml) >= 1) =>
    /\ result = FoldLeft(ml, Len(ml))
    /\ Len(ml) = 1 => result = ml[1]
    /\ (\A k \in DOMAIN ml : ml[k].rows = ml[k].cols) => result = DiagOf(ml)

C5_Witness ==
  /\ fn = "many_summand" /\ pc = "done"
  /\ Len(ml) = 3
  /\ IsMatrix(result)
  /\ ml[1] # ml[2]
  /\ ml[3].rows = 2

\* C6: the loop of stabilize_ranks terminates and returns exactly the
\* ranks for p = 0..k, k the least p >= 1 whose rank equals that at p - 1.
SRReturned ==
  (fn = "stabilize_ranks" /\ pc = "done") =>
    LET k == Len(r) - 1
    IN  /\ k >= 1
        /\ \A q \in 0..k : r[q + 1] = RankAt(A, eigenval, q)
        /\ r[1] = A.rows
        /\ \A q \in 1..k : r[q + 1] <= r[q]
        /\ r[k + 1] = r[k]
        /\ \A q \in 1..(k - 1) : r[q + 1] # r[q]

C6_StabilizeTerminates ==
  /\ []SRReturned
  /\ [](fn = "stabilize_ranks" => <>(pc = "done"))

C6_Witness ==
  /\ fn = "stabilize_ranks" /\ pc = "done"
  /\ r = <<3, 2, 1, 0, 0>>

\* C7: weyr(r) has the length of r: entry p-1 is r[p-1] - r[p], followed
\* by one sentinel 0.
C7_WeyrLength ==
  ((fn = "weyr" /\ pc = "done") \/ (fn = "jordan_form" /\ Len(blocks) >= 1)) =>
    /\ Len(w) = Len(r)
    /\ \A q \in 1..(Len(r) - 1) : w[q] = r[q] - r[q + 1]
    /\ w[Len(w)] = 0

C7_Witness ==
  /\ fn = "weyr" /\ pc = "done"
  /\ r = <<2, 0, 1>>
  /\ w = <<2, -1, 0>>

\* C8: create_blocks(w, lambda) creates exactly max(0, w[i-1] - w[i])
\* blocks of size i for each i in 1..len(w)-1, none of another size, and
\* raises nothing when a difference is negative.
C8_BlockCounts ==
  (fn = "create_blocks" /\ pc = "done") =>
    /\ \A i \in 1..(Len(w) - 1) :
         Cardinality({k \in DOMAIN blocks : blocks[k] = JBlock(eigenval, i)})
           = Max0(w[i] - w[i + 1])
    /\ \A k \in DOMAIN blocks :
         \E i \in 1..(Len(w) - 1) : blocks[k] = JBlock(eigenval, i)
    /\ result.kind \in {"Matrix", "None"}
    /\ result.kind = "None" <=> blocks = <<>>

C8_Witness ==
  /\ fn = "create_blocks" /\ pc = "done"
  /\ w = <<2, 0, 1>>
  /\ Len(blocks) = 2
  /\ IsMatrix(result)

\* C9: in jordan_form every call of create_blocks builds at least one
\* block (w[0] > 0, the last entry of w is 0), so many_summand never gets
\* an empty list and None never reaches the final direct sum.
C9_NoEmptyBlockList ==
  fn = "jordan_form" =>
    /\ pc # "start" => Len(vals) >= 1
    /\ Len(blocks) >= 1 =>
         /\ w[1] > 0
         /\ w[Len(w)] = 0
         /\ \E i \in 1..(Len(w) - 1) : w[i] - w[i + 1] > 0
         /\ block_list(w, eigenval) # <<>>
    /\ \A k \in DOMAIN blocks : blocks[k] # NoneVal /\ IsMatrix(blocks[k])
    /\ pc = "done" => IsMatrix(result)

C9_Witness ==
  /\ JFDone
  /\ A.rows = 3
  /\ Len(vals) = 2
  /\ Len(blocks) = 2
  /\ IsMatrix(result)

\* C10: create_blocks puts its blocks along the diagonal in non-increasing
\* size order, and jordan_form puts the per-eigenvalue groups along the
\* diagonal in the order the eigenvalues were enumerated.
C10_BlockOrder ==
  /\ (fn = "create_blocks" /\ pc = "done" /\ blocks # <<>>) =>
       /\ \A k \in 1..(Len(blocks) - 1) : blocks[k].rows >= blocks[k + 1].rows
       /\ result = DiagOf(blocks)
  /\ JFDone =>
       /\ result = DiagOf(blocks)
       /\ \A k \in DOMAIN blocks :
            /\ IsJordanShape(blocks[k])
            /\ \A i \in 1..blocks[k].rows : blocks[k].ent[i][i] = vals[k]
            /\ \A t1, t2 \in BlockEnds(blocks[k]) :
                 t1 < t2 => BlockAt(blocks[k], t1)[2] >= BlockAt(blocks[k], t2)[2]

C10_Witness ==
  /\ JFDone
  /\ Len(vals) = 2
  /\ vals[1] > vals[2]
  /\ blocks[1].rows = 2
  /\ result.ent[1][1] = vals[1]
  /\ result.ent[3][3] = vals[2]

====
